---- MODULE Spec2Model ----
(***************************************************************************)
(* Model of the response deserializer of the Skytable Rust client          *)
(* (src/src/deserializer.rs).  `parse` is modelled as a state machine over *)
(* one input buffer: one action per block of the function (the metaframe,  *)
(* one iteration of the datagroup loop, one iteration of the element loop, *)
(* the push of a finished datagroup, the final classification).  The input *)
(* buffers are generated from responses written in the wire format of the  *)
(* unit tests, either intact or damaged in one place.                      *)
(*                                                                         *)
(* Bytes are their numeric values (0..255).  Positions are 0-based as in   *)
(* the source; At(buf, p) reads byte p.                                    *)
(***************************************************************************)
EXTENDS Integers, Sequences, FiniteSets, TLC

(***************************************************************************)
(* Byte values used by the wire format.                                    *)
(***************************************************************************)
LF == 10
HASH == 35
STAR == 42
AMP == 38
PLUS == 43
BANG == 33
COLON == 58
ASCII_ZERO == 48
REPLACEMENT_CHARACTER == 65533

(***************************************************************************)
(* Bounds of the generated inputs: the datagroups of a response, the       *)
(* elements of a response (over all its datagroups), and the length of the *)
(* buffers of arbitrary bytes.                                             *)
(***************************************************************************)
MaxGroups == 2
MaxElems == 2
MaxRawLen == 6

At(b, p) == b[p + 1]

RECURSIVE Concat(_)
Concat(ss) == IF Len(ss) = 0 THEN << >> ELSE Head(ss) \o Concat(Tail(ss))

(***************************************************************************)
(* usize::to_string: the decimal ASCII digits of a length or count.        *)
(***************************************************************************)
RECURSIVE DecStr(_)
DecStr(n) ==
    IF n < 10 THEN << ASCII_ZERO + n >>
    ELSE Append(DecStr(n \div 10), ASCII_ZERO + (n % 10))

(***************************************************************************)
(* Decoded values.  A Str holds its code points, an UnsignedInt its value  *)
(* as the canonical sequence of decimal digits (the model's integers are   *)
(* narrower than u64), a RespCode its variant and the digits of its code.  *)
(***************************************************************************)
U64MaxDigits == << 1,8,4,4,6,7,4,4,0,7,3,7,0,9,5,5,1,6,1,5 >>

Str(text) == [type |-> "Str", variant |-> "Str", val |-> text]
UnsignedInt(digits) == [type |-> "UnsignedInt", variant |-> "u64", val |-> digits]
RespCode(v, digits) == [type |-> "RespCode", variant |-> v, val |-> digits]

AsciiOfDigits(ds) == [i \in 1..Len(ds) |-> ASCII_ZERO + ds[i]]

(***************************************************************************)
(* The elements of the generated well-formed responses: the string of the  *)
(* first unit test, the largest u64 (a payload with a two-digit length)    *)
(* and the NotFound code of the second unit test.                          *)
(***************************************************************************)
ValidElems ==
    { Str(<< 72, 69, 89, 33 >>),
      UnsignedInt(U64MaxDigits),
      RespCode("NotFound", << 1 >>) }

(***************************************************************************)
(* An element on the wire is <<tag, payload bytes>>.                       *)
(***************************************************************************)
WireOf(el) ==
    IF el.type = "Str" THEN << PLUS, el.val >>
    ELSE IF el.type = "UnsignedInt" THEN << COLON, AsciiOfDigits(el.val) >>
    ELSE << BANG, AsciiOfDigits(el.val) >>

WireGroup(g) == [i \in 1..Len(g) |-> WireOf(g[i])]
WireResponse(r) == [j \in 1..Len(r) |-> WireGroup(r[j])]

(***************************************************************************)
(* The wire format.  Every byte is paired with the role it plays, so that  *)
(* the damage done to a buffer can be aimed at a field.                    *)
(***************************************************************************)
Mark(bytes, role) == [i \in 1..Len(bytes) |-> << bytes[i], role >>]

EncodeElement(w) ==
    Mark(<< w[1] >>, "etag") \o Mark(DecStr(Len(w[2])), "elen") \o Mark(<< LF >>, "lf")
        \o Mark(w[2], "payload") \o Mark(<< LF >>, "eol")

EncodeFrame(lineTag, count) ==
    LET digits == DecStr(count)
    IN  Mark(<< HASH >>, "frame") \o Mark(DecStr(1 + Len(digits)), "len") \o Mark(<< LF >>, "lf")
            \o Mark(<< lineTag >>, "linetag") \o Mark(digits, "count") \o Mark(<< LF >>, "eol")

EncodeGroup(g) ==
    EncodeFrame(AMP, Len(g)) \o Concat([i \in 1..Len(g) |-> EncodeElement(g[i])])

EncodeMarked(w) ==
    EncodeFrame(STAR, Len(w)) \o Concat([j \in 1..Len(w) |-> EncodeGroup(w[j])])

Bytes(marked) == [i \in 1..Len(marked) |-> marked[i][1]]
Encode(w) == Bytes(EncodeMarked(w))

GroupsUpTo(t) == UNION { [1..m -> ValidElems] : m \in 0..t }

\* The responses of n datagroups with at most t elements in all.
RECURSIVE ResponsesOf(_, _)
ResponsesOf(n, t) ==
    IF n = 0 THEN { << >> }
    ELSE UNION { { << g >> \o r : r \in ResponsesOf(n - 1, t - Len(g)) } : g \in GroupsUpTo(t) }

Responses == UNION { ResponsesOf(n, MaxElems) : n \in 0..MaxGroups }

(***************************************************************************)
(* Damage done to a well-formed buffer: cut it after `at` bytes, overwrite *)
(* one digit of a length or count field, overwrite one element tag, put    *)
(* another payload (with its exact length) in place of an element's,       *)
(* append bytes after the last datagroup, overwrite the line-feed that     *)
(* ends a line or a payload, overwrite a '#', '*' or '&', or make a length *)
(* prefix denote 0 (a '0', or no digit at all).  Besides these, parse is   *)
(* given every short buffer over a few bytes.                              *)
(***************************************************************************)
Mutation(k, p, gi, ei, t, bs) ==
    [kind |-> k, at |-> p, g |-> gi, e |-> ei, tag |-> t, bytes |-> bs]

NoMutation == Mutation("none", 0, 0, 0, 0, << >>)

NonDigitBytes == { 45, 120 }
UnknownTagBytes == { 36, 63 }
ElementTags == { PLUS, BANG, COLON }

NonNumericPayload == << 49, 255 >>
OverflowPayload == AsciiOfDigits(<< 1,8,4,4,6,7,4,4,0,7,3,7,0,9,5,5,1,6,1,6 >>)
UnknownCodePayload == << 55, 55 >>
AltPayloads == { NonNumericPayload, OverflowPayload, UnknownCodePayload }

ExtraGroup == Bytes(EncodeGroup(<< WireOf(Str(<< 72, 69, 89, 33 >>)) >>))
EmptyGroup == Bytes(EncodeGroup(<< >>))
Suffixes ==
    { ExtraGroup, EmptyGroup, EmptyGroup \o EmptyGroup, << 120 >>, << HASH >>, << LF >> }

NonLineFeedBytes == { 120 }
WrongFrameBytes == { PLUS, 120 }
ZeroPrefixes == { << ASCII_ZERO >>, << >> }

\* Length prefixes at and above the largest usize: 2^64 - 1, and 2^64 + 2
\* and 2^64 + 4, which are 2 and 4 modulo 2^64.
HugePrefixes ==
    { AsciiOfDigits(U64MaxDigits),
      AsciiOfDigits(<< 1,8,4,4,6,7,4,4,0,7,3,7,0,9,5,5,1,6,1,8 >>),
      AsciiOfDigits(<< 1,8,4,4,6,7,4,4,0,7,3,7,0,9,5,5,1,6,2,0 >>) }

RawAlphabet == { HASH, LF, ASCII_ZERO, 120 }
RawBuffers == UNION { [1..n -> RawAlphabet] : n \in 0..MaxRawLen }

RolePositions(marked, roles) ==
    { p \in 0..(Len(marked) - 1) : At(marked, p)[2] \in roles }

ElementSlots(r) ==
    UNION { { << gi, ei >> : ei \in 1..Len(r[gi]) } : gi \in 1..Len(r) }

Mutations(r) ==
    LET marked == EncodeMarked(WireResponse(r))
    IN  { NoMutation }
        \cup { Mutation("truncate", k, 0, 0, 0, << >>) : k \in 0..(Len(marked) - 1) }
        \cup { Mutation("digit", p, 0, 0, 0, << b >>) :
                 p \in RolePositions(marked, { "len", "count", "elen" }), b \in NonDigitBytes }
        \cup { Mutation("tag", p, 0, 0, 0, << b >>) :
                 p \in RolePositions(marked, { "etag" }), b \in UnknownTagBytes }
        \cup { Mutation("payload", 0, s[1], s[2], t, bs) :
                 s \in ElementSlots(r), t \in ElementTags, bs \in AltPayloads }
        \cup { Mutation("append", 0, 0, 0, 0, bs) : bs \in Suffixes }
        \cup { Mutation("eol", p, 0, 0, 0, << b >>) :
                 p \in RolePositions(marked, { "eol" }), b \in NonLineFeedBytes }
        \cup { Mutation("frame", p, 0, 0, 0, << b >>) :
                 p \in RolePositions(marked, { "frame", "linetag" }), b \in WrongFrameBytes }
        \cup { Mutation("zerolen", p, 0, 0, 0, bs) :
                 p \in RolePositions(marked, { "len" }), bs \in ZeroPrefixes }
        \cup { Mutation("hugelen", p, 0, 0, 0, bs) :
                 p \in RolePositions(marked, { "len", "elen" }), bs \in HugePrefixes }
        \cup (IF Len(r) = 0 THEN { Mutation("raw", 0, 0, 0, 0, bs) : bs \in RawBuffers } ELSE { })

Input(r, m) ==
    LET w == WireResponse(r)
        b == Encode(w)
    IN  CASE m.kind = "none" -> b
          [] m.kind = "truncate" -> SubSeq(b, 1, m.at)
          [] m.kind \in { "digit", "tag", "eol", "frame" } -> [b EXCEPT ![m.at + 1] = m.bytes[1]]
          [] m.kind \in { "zerolen", "hugelen" } -> SubSeq(b, 1, m.at) \o m.bytes \o SubSeq(b, m.at + 2, Len(b))
          [] m.kind = "raw" -> m.bytes
          [] m.kind = "payload" -> Encode([w EXCEPT ![m.g][m.e] = << m.tag, m.bytes >>])
          [] m.kind = "append" -> b \o m.bytes

(***************************************************************************)
(* Helpers of the parser.                                                  *)
(***************************************************************************)

\* Variant with a fault: the shortest packet is taken to have 5 bytes.
TooShortOffByOne(b) == Len(b) < 5

\* `if buf.len() < 6`: "A packet that has less than 6 characters? Nonsense!"
TooShort(b) == Len(b) < 6

\* `match b.checked_sub(48) { Some(dig) => if dig > 9 {..} else {dig}, None => .. }`
IsDigitByte(b) == b >= ASCII_ZERO /\ b - ASCII_ZERO <= 9
DigitOf(b) == b - ASCII_ZERO

\* `size = (size * 10) + curdig`
MulAdd10(size, curdig) == (size * 10) + curdig

\* A usize is a 64-bit word, kept as four 16-bit limbs, lowest first.
LimbBase == 256 * 256

usize(n) == << n % LimbBase, n \div LimbBase, 0, 0 >>

\* The words that are at most the largest buffer length, and their value.
IsSmall(w) == w[3] = 0 /\ w[4] = 0 /\ w[2] < LimbBase \div 2
ToInt(w) == w[1] + (LimbBase * w[2])

\* `(size * 10) + curdig` on a usize: the value modulo 2^64, and whether
\* the arithmetic overflowed.
wrapping_mul10_add(w, curdig) ==
    LET c0 == (w[1] * 10) + curdig
        c1 == (w[2] * 10) + (c0 \div LimbBase)
        c2 == (w[3] * 10) + (c1 \div LimbBase)
        c3 == (w[4] * 10) + (c2 \div LimbBase)
    IN  [val |-> << c0 % LimbBase, c1 % LimbBase, c2 % LimbBase, c3 % LimbBase >>,
         overflow |-> c3 \div LimbBase > 0]

\* `pos + size` on a usize, for a cursor n.
wrapping_add(w, n) ==
    LET c0 == w[1] + (n % LimbBase)
        c1 == w[2] + (n \div LimbBase) + (c0 \div LimbBase)
        c2 == w[3] + (c1 \div LimbBase)
        c3 == w[4] + (c2 \div LimbBase)
    IN  [val |-> << c0 % LimbBase, c1 % LimbBase, c2 % LimbBase, c3 % LimbBase >>,
         overflow |-> c3 \div LimbBase > 0]

\* `String::with_capacity(element_size)` panics with "capacity overflow"
\* for a capacity above isize::MAX.
CapacityOverflow(w) == w[4] >= LimbBase \div 2

\* The digit loops `while pos < buf.len() && buf[pos] != b'\n'`: the loop
\* stops at a line-feed or at the end of the buffer (ok), or at a byte that
\* is not a digit (not ok); `pos` is where it stopped.  `size` is the word
\* accumulated, `overflow` tells whether the accumulation overflowed and
\* `at` the digit at which it first did.
RECURSIVE ScanSize(_, _, _)
ScanSize(b, p, size) ==
    IF p < Len(b) /\ At(b, p) # LF
    THEN IF IsDigitByte(At(b, p))
         THEN LET m == wrapping_mul10_add(size, DigitOf(At(b, p)))
                  rest == ScanSize(b, p + 1, m.val)
              IN  IF m.overflow THEN [rest EXCEPT !.overflow = TRUE, !.at = p] ELSE rest
         ELSE [ok |-> FALSE, size |-> size, pos |-> p, overflow |-> FALSE, at |-> p]
    ELSE [ok |-> TRUE, size |-> size, pos |-> p, overflow |-> FALSE, at |-> p]

\* `buf.get(from..from + size)` is Some exactly when the range lies in the
\* buffer; `overflow` tells whether `from + size` overflowed, and the
\* wrapped end then lies before `from`.
GetRange(b, from, size) ==
    LET end == wrapping_add(size, from)
    IN  IF IsSmall(end.val) /\ from <= ToInt(end.val) /\ ToInt(end.val) <= Len(b)
        THEN [some |-> TRUE, bytes |-> SubSeq(b, from + 1, ToInt(end.val)),
              overflow |-> end.overflow]
        ELSE [some |-> FALSE, bytes |-> << >>, overflow |-> end.overflow]

\* Variant with a fault: the cursor is not moved past the line returned.
read_line_keeps_cursor(p, b) ==
    LET scan == ScanSize(b, p, usize(0))
        start == scan.pos + 1
        next_line == GetRange(b, start, scan.size)
        overflow == scan.overflow \/ (scan.ok /\ next_line.overflow)
        at == IF scan.overflow THEN scan.at ELSE start
    IN  IF ~scan.ok
        THEN [some |-> FALSE, line |-> << >>, pos |-> scan.pos, overflow |-> overflow, at |-> at]
        ELSE IF ~next_line.some
        THEN [some |-> FALSE, line |-> << >>, pos |-> start, overflow |-> overflow, at |-> at]
        ELSE [some |-> TRUE, line |-> next_line.bytes, pos |-> start,
              overflow |-> overflow, at |-> at]

\* The line after a size line; `pos` is the cursor as the function leaves it.
\* `overflow` tells whether the arithmetic on the size overflowed, `at`
\* where the cursor was when it first did.
read_line_and_return_next_line(p, b) ==
    LET scan == ScanSize(b, p, usize(0))
        start == scan.pos + 1
        next_line == GetRange(b, start, scan.size)
        overflow == scan.overflow \/ (scan.ok /\ next_line.overflow)
        at == IF scan.overflow THEN scan.at ELSE start
    IN  IF ~scan.ok
        THEN [some |-> FALSE, line |-> << >>, pos |-> scan.pos, overflow |-> overflow, at |-> at]
        ELSE IF ~next_line.some
        THEN [some |-> FALSE, line |-> << >>, pos |-> start, overflow |-> overflow, at |-> at]
        ELSE [some |-> TRUE, line |-> next_line.bytes, pos |-> start + Len(next_line.bytes),
              overflow |-> overflow, at |-> at]

\* The count after the '*' or '&' of a line: every byte after the first
\* must be a digit.
RECURSIVE ParseCount(_, _, _)
ParseCount(line, linepos, size) ==
    IF linepos < Len(line)
    THEN IF IsDigitByte(At(line, linepos))
         THEN ParseCount(line, linepos + 1, MulAdd10(size, DigitOf(At(line, linepos))))
         ELSE [ok |-> FALSE, size |-> size]
    ELSE [ok |-> TRUE, size |-> size]

\* String::from_utf8_lossy on the bytes the inputs contain: ASCII bytes are
\* their own code points, a byte that cannot occur in UTF-8 (0xFF) becomes
\* U+FFFD.
from_utf8_lossy(bytes) ==
    [i \in 1..Len(bytes) |-> IF bytes[i] < 128 THEN bytes[i] ELSE REPLACEMENT_CHARACTER]

\* `value.parse::<u64>()` on a string of code points: an optional leading
\* '+', then one or more decimal digits, of a value that fits 64 bits.  The
\* value is returned as its digits without leading zeros.
StripSign(v) == IF Len(v) > 1 /\ v[1] = PLUS THEN Tail(v) ELSE v

AllDigits(v) == \A i \in 1..Len(v) : IsDigitByte(v[i])

RECURSIVE StripZeros(_)
StripZeros(ds) == IF Len(ds) > 1 /\ ds[1] = 0 THEN StripZeros(Tail(ds)) ELSE ds

DigitsOf(v) == StripZeros([i \in 1..Len(v) |-> DigitOf(v[i])])

DigitsLeq(a, b) ==
    \/ a = b
    \/ \E i \in 1..Len(a) : a[i] < b[i] /\ \A j \in 1..(i - 1) : a[j] = b[j]

FitsU64(ds) ==
    \/ Len(ds) < Len(U64MaxDigits)
    \/ Len(ds) = Len(U64MaxDigits) /\ DigitsLeq(ds, U64MaxDigits)

\* Variant with a fault: a value that does not fit 64 bits is accepted.
parse_u64_unchecked(value) ==
    LET src == StripSign(value)
    IN  IF Len(src) = 0 \/ ~AllDigits(src) THEN [ok |-> FALSE, val |-> << >>]
        ELSE [ok |-> TRUE, val |-> DigitsOf(src)]

parse_u64(value) ==
    LET src == StripSign(value)
    IN  IF Len(src) = 0 \/ ~AllDigits(src) THEN [ok |-> FALSE, val |-> << >>]
        ELSE IF ~FitsU64(DigitsOf(src)) THEN [ok |-> FALSE, val |-> << >>]
        ELSE [ok |-> TRUE, val |-> DigitsOf(src)]

\* RespCode::from_str lives in the respcode module.  It returns a RespCode
\* for every string: the known code for "0" and "1" (the unit tests), the
\* variant for other codes, and for text that is no integer the variant
\* that keeps the text (doc comment of DataType::RespCode).
RespCode_from_str(value) ==
    IF Len(value) > 0 /\ AllDigits(value)
    THEN LET code == DigitsOf(value)
         IN  IF code = << 0 >> THEN RespCode("Okay", code)
             ELSE IF code = << 1 >> THEN RespCode("NotFound", code)
             ELSE RespCode("Other", code)
    ELSE RespCode("ErrorString", value)

\* Variants with a fault: the new entry is put in front.
PushElementFront(group, el) == << el >> \o group
PushItemsFront(groups, group) == << group >> \o groups

\* `actiongroup.push(..)` and `items.push(actiongroup)`.
PushElement(group, el) == Append(group, el)
PushItems(groups, group) == Append(groups, group)

\* Variant with a fault: a RespCode payload that is no integer fails like
\* an UnsignedInt payload.
DecodeElementStrictCode(tag, value) ==
    IF tag = PLUS THEN [ok |-> TRUE, el |-> Str(value)]
    ELSE IF tag = BANG
         THEN IF Len(value) > 0 /\ AllDigits(value)
              THEN [ok |-> TRUE, el |-> RespCode_from_str(value)]
              ELSE [ok |-> FALSE, el |-> Str(<< >>)]
    ELSE IF parse_u64(value).ok
         THEN [ok |-> TRUE, el |-> UnsignedInt(parse_u64(value).val)]
         ELSE [ok |-> FALSE, el |-> Str(<< >>)]

\* The `match datatype` that builds the element pushed to the datagroup;
\* only an UnsignedInt can fail.
DecodeElement(tag, value) ==
    IF tag = PLUS THEN [ok |-> TRUE, el |-> Str(value)]
    ELSE IF tag = BANG THEN [ok |-> TRUE, el |-> RespCode_from_str(value)]
    ELSE IF parse_u64(value).ok
         THEN [ok |-> TRUE, el |-> UnsignedInt(parse_u64(value).val)]
         ELSE [ok |-> FALSE, el |-> Str(<< >>)]

(***************************************************************************)
(* Outcomes of parse (ClientResult), and the abort of the process.         *)
(***************************************************************************)
Outcome(k, d, n) == [kind |-> k, data |-> d, consumed |-> n]

Pending == Outcome("Pending", << >>, 0)
Incomplete == Outcome("Incomplete", << >>, 0)
InvalidResponse == Outcome("InvalidResponse", << >>, 0)
ParseError == Outcome("ParseError", << >>, 0)
Panic == Outcome("Panic", << >>, 0)
ResponseItem(el, n) == Outcome("ResponseItem", el, n)
SimpleResponse(group, n) == Outcome("SimpleResponse", group, n)
PipelinedResponse(groups, n) == Outcome("PipelinedResponse", groups, n)

SuccessKinds == { "ResponseItem", "SimpleResponse", "PipelinedResponse" }

(***************************************************************************)
(* State: the input (the response it was written from, the damage done to  *)
(* it, the buffer handed to parse) and the locals of parse.                *)
(***************************************************************************)
VARIABLES resp, mut, buf, pc, pos, action_size, items, current_array_size,
          actiongroup, result,
          query, stream, args, status

\* The variables of a run of parse.
pvars == << resp, mut, buf, pc, pos, action_size, items, current_array_size,
            actiongroup, result >>

\* A Query (its fields size_count and data), the bytes the latest
\* write_query_to wrote to the stream, the arguments added since the Query
\* was made or last written in full, and how the latest call on it ended.
qvars == << query, stream, args, status >>

vars == << pvars, qvars >>

\* `Query::new()`
Query_new == [size_count |-> 0, data |-> << >>]

\* No call on a Query is made during a run of parse.
QueryUnused ==
    /\ query = Query_new
    /\ stream = << >>
    /\ args = << >>
    /\ status = "new"

Init ==
    \E r \in Responses : \E m \in Mutations(r) :
        /\ resp = r
        /\ mut = m
        /\ buf = Input(r, m)
        /\ pc = "parse"
        /\ pos = 0
        /\ action_size = 0
        /\ items = << >>
        /\ current_array_size = 0
        /\ actiongroup = << >>
        /\ result = Pending
        /\ QueryUnused

\* A `return`: the outcome, and the cursor where the function stopped.
Return(outcome, p) ==
    /\ pc' = "done"
    /\ result' = outcome
    /\ pos' = p
    /\ UNCHANGED << resp, mut, buf, action_size, items, current_array_size, actiongroup, qvars >>

\* Variant with a fault: the first byte of a line is not compared.
StartsWithAny(line, tag) == Len(line) > 0

\* The first byte of a non-empty line is the expected tag ('*' for the
\* metaline, '&' for an array line).
StartsWith(line, tag) == At(line, 0) = tag

\* Variant with a fault: the datagroup loop is bounded by the buffer only.
GroupLoopUnbounded == pos < Len(buf)

\* The test of the datagroup loop.
GroupLoop == pos < Len(buf) /\ Len(items) <= action_size

\* From the entry of parse to the first test of the datagroup loop.  Where
\* the arithmetic on a size overflows, a build with overflow checks (the
\* dev profile) panics and a build without them (the release profile) goes
\* on with the wrapped word: both outcomes are steps of the model.
ParseMetaframe ==
    /\ pc = "parse"
    /\ IF TooShort(buf) THEN Return(Incomplete, pos)
       ELSE IF At(buf, 0) # HASH THEN Return(InvalidResponse, pos)
       ELSE LET r == read_line_and_return_next_line(1, buf)
            IN  \/ r.overflow /\ Return(Panic, r.at)
                \/ IF ~r.some THEN Return(Incomplete, r.pos)
                   ELSE IF Len(r.line) = 0 THEN Return(Panic, r.pos + 1)
                   ELSE IF ~StartsWith(r.line, STAR) THEN Return(InvalidResponse, r.pos + 1)
                   ELSE IF ~ParseCount(r.line, 1, 0).ok THEN Return(InvalidResponse, r.pos + 1)
                   ELSE /\ pc' = "groups"
                        /\ pos' = r.pos + 1
                        /\ action_size' = ParseCount(r.line, 1, 0).size
                        /\ items' = << >>
                        /\ UNCHANGED << resp, mut, buf, current_array_size, actiongroup, result, qvars >>

\* One iteration of the datagroup loop, up to the first test of the
\* element loop.
GroupHeader ==
    /\ pc = "groups"
    /\ GroupLoop
    /\ IF At(buf, pos) # HASH THEN Return(InvalidResponse, pos)
       ELSE LET r == read_line_and_return_next_line(pos + 1, buf)
            IN  \/ r.overflow /\ Return(Panic, r.at)
                \/ IF ~r.some THEN Return(Incomplete, r.pos)
                   ELSE IF Len(r.line) = 0 THEN Return(Panic, r.pos + 1)
                   ELSE IF ~StartsWith(r.line, AMP) THEN Return(InvalidResponse, r.pos + 1)
                   ELSE IF ~ParseCount(r.line, 1, 0).ok THEN Return(InvalidResponse, r.pos + 1)
                   ELSE /\ pc' = "elements"
                        /\ pos' = r.pos + 1
                        /\ current_array_size' = ParseCount(r.line, 1, 0).size
                        /\ actiongroup' = << >>
                        /\ UNCHANGED << resp, mut, buf, action_size, items, result, qvars >>

\* One iteration of the element loop.
ElementStep ==
    /\ pc = "elements"
    /\ pos < Len(buf) /\ Len(actiongroup) < current_array_size
    /\ IF At(buf, pos) \notin ElementTags THEN Return(Panic, pos)
       ELSE LET scan == ScanSize(buf, pos + 1, usize(0))
                start == scan.pos + 1
                extracted == GetRange(buf, start, scan.size)
                after == start + Len(extracted.bytes) + 1
                decoded == DecodeElement(At(buf, pos), from_utf8_lossy(extracted.bytes))
            IN  \/ /\ \/ scan.overflow
                      \/ scan.ok /\ ~CapacityOverflow(scan.size) /\ extracted.overflow
                   /\ Return(Panic, IF scan.overflow THEN scan.at ELSE start)
                \/ IF ~scan.ok THEN Return(InvalidResponse, scan.pos)
                   ELSE IF CapacityOverflow(scan.size) THEN Return(Panic, start)
                   ELSE IF ~extracted.some THEN Return(Incomplete, start)
                   ELSE IF ~decoded.ok THEN Return(ParseError, after)
                   ELSE /\ actiongroup' = PushElement(actiongroup, decoded.el)
                        /\ pos' = after
                        /\ UNCHANGED << resp, mut, buf, pc, action_size, items,
                                        current_array_size, result, qvars >>

\* The element loop ends: the datagroup is pushed, the datagroup loop continues.
PushGroup ==
    /\ pc = "elements"
    /\ ~(pos < Len(buf) /\ Len(actiongroup) < current_array_size)
    /\ items' = PushItems(items, actiongroup)
    /\ actiongroup' = << >>
    /\ pc' = "groups"
    /\ UNCHANGED << resp, mut, buf, pos, action_size, current_array_size, result, qvars >>

\* Variant with a fault: a lone element is returned as a datagroup.
ClassificationNoItem ==
    IF pos >= Len(buf)
    THEN IF Len(items) = action_size
         THEN IF Len(items) = 1
              THEN SimpleResponse(items[1], pos)
              ELSE PipelinedResponse(items, pos)
         ELSE Incomplete
    ELSE InvalidResponse

\* Variant with a fault: no datagroups collected counts as not all data
\* transferred.
ClassificationEmptyIncomplete ==
    IF pos >= Len(buf)
    THEN IF Len(items) = action_size /\ Len(items) > 0
         THEN IF Len(items) = 1
              THEN IF Len(items[1]) = 1
                   THEN ResponseItem(items[1][1], pos)
                   ELSE SimpleResponse(items[1], pos)
              ELSE PipelinedResponse(items, pos)
         ELSE Incomplete
    ELSE InvalidResponse

\* Variant with a fault: fewer datagroups than declared is an invalid
\* response.
ClassificationShortIsInvalid ==
    IF pos >= Len(buf) /\ Len(items) = action_size
    THEN IF Len(items) = 1
         THEN IF Len(items[1]) = 1
              THEN ResponseItem(items[1][1], pos)
              ELSE SimpleResponse(items[1], pos)
         ELSE PipelinedResponse(items, pos)
    ELSE InvalidResponse

\* The datagroup loop ends: the outcome is chosen from the cursor and the
\* datagroups collected.
Classification ==
    IF pos >= Len(buf)
    THEN IF Len(items) = action_size
         THEN IF Len(items) = 1
              THEN IF Len(items[1]) = 1
                   THEN ResponseItem(items[1][1], pos)
                   ELSE SimpleResponse(items[1], pos)
              ELSE PipelinedResponse(items, pos)
         ELSE Incomplete
    ELSE InvalidResponse

Classify ==
    /\ pc = "groups"
    /\ ~GroupLoop
    /\ Return(Classification, pos)

Next == ParseMetaframe \/ GroupHeader \/ ElementStep \/ PushGroup \/ Classify

Spec == Init /\ [][Next]_vars

(***************************************************************************)
(* Query (lib.rs): arguments are collected in a holding buffer, which      *)
(* write_query_to sends after a metaframe and a count line.                *)
(***************************************************************************)
UNDERSCORE == 95

\* The most arguments a Query is given before it is written or made anew.
MaxArgs == 2

\* What is passed to `arg`: strings (the empty one, one that looks like an
\* element itself, one of ten bytes) and numbers.
StrArg(bytes) == [type |-> "str", val |-> bytes]
IntArg(n) == [type |-> "int", val |-> n]

Args ==
    { StrArg(<< >>),
      StrArg(<< PLUS, ASCII_ZERO + 1, LF >>),
      StrArg([i \in 1..10 |-> 120]),
      IntArg(0),
      IntArg(10) }

\* `arg.to_string()`
to_string(a) == IF a.type = "int" THEN DecStr(a.val) ELSE a.val

\* Variant with a fault: the element is added but not counted.
arg_uncounted(q, s) ==
    [size_count |-> q.size_count,
     data |-> q.data \o << PLUS >> \o DecStr(Len(s)) \o << LF >> \o s \o << LF >>]

\* `Query::arg` for a non-empty string: `+<bytes_in_next_line>\n<data>\n`
\* is added to the holding buffer and counted.
arg(q, s) ==
    [size_count |-> q.size_count + 1,
     data |-> q.data \o << PLUS >> \o DecStr(Len(s)) \o << LF >> \o s \o << LF >>]

\* Variant with a fault: the count is kept when the buffer is cleared.
clear_keeps_count(q) == [size_count |-> q.size_count, data |-> << >>]

\* `self.data.clear(); self.size_count = 0;`
clear(q) == [size_count |-> 0, data |-> << >>]

\* `fn __len(&self)`
__len(q) == q.size_count

\* `fn get_holding_buffer(&self)`
get_holding_buffer(q) == q.data

\* The five `write_all` calls of write_query_to, in order.
Writes(q) ==
    << << STAR, ASCII_ZERO + 1, LF >>,
       << UNDERSCORE >>,
       DecStr(__len(q)),
       << LF >>,
       get_holding_buffer(q) >>

QueryInit ==
    /\ QueryUnused
    /\ resp = << >>
    /\ mut = NoMutation
    /\ buf = << >>
    /\ pc = "idle"
    /\ pos = 0
    /\ action_size = 0
    /\ items = << >>
    /\ current_array_size = 0
    /\ actiongroup = << >>
    /\ result = Pending

\* `Query::new()`: the caller goes on with a new Query.
QueryNew ==
    /\ pc = "idle"
    /\ query' = Query_new
    /\ args' = << >>
    /\ status' = "new"
    /\ UNCHANGED << stream, pvars >>

\* `query.arg(a)`: panics for an empty string before anything is changed.
QueryArg ==
    /\ pc = "idle"
    /\ \E a \in Args :
        IF Len(to_string(a)) = 0
        THEN /\ status' = "panic"
             /\ UNCHANGED << query, args, stream, pvars >>
        ELSE /\ query.size_count < MaxArgs
             /\ query' = arg(query, to_string(a))
             /\ args' = Append(args, a)
             /\ status' = "arg"
             /\ UNCHANGED << stream, pvars >>

\* `query.write_query_to(stream)`: the first k writes succeed; with all
\* five done the Query is cleared, otherwise `?` returns the error and the
\* Query is left as it was.
WriteQueryTo ==
    /\ pc = "idle"
    /\ \E k \in 0..Len(Writes(query)) :
        /\ stream' = Concat(SubSeq(Writes(query), 1, k))
        /\ IF k = Len(Writes(query))
           THEN /\ query' = clear(query)
                /\ args' = << >>
                /\ status' = "written"
           ELSE /\ status' = "io_error"
                /\ UNCHANGED << query, args >>
        /\ UNCHANGED pvars

QueryNext == QueryNew \/ QueryArg \/ WriteQueryTo

QuerySpec == QueryInit /\ [][QueryNext]_vars

(***************************************************************************)
(* Properties.  Names of the specification map to ClientResult as follows: *)
(* Incomplete = Incomplete, Malformed = InvalidResponse, PayloadError =    *)
(* ParseError, SingleItem = ResponseItem, FlatGroup = SimpleResponse,      *)
(* Batch = PipelinedResponse.                                              *)
(***************************************************************************)
Done == pc = "done"
Succeeded == result.kind \in SuccessKinds

\* C1: parse of a proper prefix of a well-formed buffer returns Incomplete,
\* never InvalidResponse, ParseError or a success.
C1_TruncatedIsIncomplete ==
    (Done /\ mut.kind = "truncate") => result.kind = "Incomplete"

\* C2: whenever parse returns a success, the consumed count it carries is
\* the length of the buffer.
C2_ConsumedIsBufferLength ==
    (Done /\ Succeeded) => result.consumed = Len(buf)

\* C3: a byte other than '+', '!' and ':' at an element-tag position makes
\* parse return InvalidResponse; parse does not abort.
C3_UnknownTagIsMalformed ==
    (Done /\ mut.kind = "tag") => result.kind = "InvalidResponse"

\* C4: bytes that remain after the declared number of datagroups make
\* parse return InvalidResponse, also when they are one more well-formed
\* datagroup that ends with the buffer.
C4_TrailingBytesAreMalformed ==
    (Done /\ mut.kind = "append") => result.kind = "InvalidResponse"

\* C5: a well-formed buffer in which one digit of a length or count field
\* is replaced by a byte that is neither a digit nor a line-feed makes
\* parse return InvalidResponse.
C5_NonDigitIsMalformed ==
    (Done /\ mut.kind = "digit") => result.kind = "InvalidResponse"

\* The success that the framing of a response determines.
ExpectedSuccess(r, n) ==
    IF Len(r) = 1
    THEN IF Len(r[1]) = 1 THEN ResponseItem(r[1][1], n) ELSE SimpleResponse(r[1], n)
    ELSE PipelinedResponse(r, n)

WithElement(r, gi, ei, el) == [r EXCEPT ![gi][ei] = el]

\* C6: a well-formed buffer of one datagroup with one element returns
\* ResponseItem with the value of that element and the length of the buffer.
C6_OneElementIsResponseItem ==
    (Done /\ mut.kind = "none" /\ Len(resp) = 1 /\ Len(resp[1]) = 1)
        => result = ResponseItem(resp[1][1], Len(buf))

C6_Witness ==
    /\ Done /\ mut.kind = "none" /\ Len(resp) = 1 /\ Len(resp[1]) = 1
    /\ resp[1][1].type = "UnsignedInt"
    /\ result.kind = "ResponseItem"

\* C7: a well-formed buffer of one datagroup with k > 1 elements returns
\* SimpleResponse with the k values in wire order and the length of the
\* buffer.
C7_OneGroupIsSimpleResponse ==
    (Done /\ mut.kind = "none" /\ Len(resp) = 1 /\ Len(resp[1]) > 1)
        => result = SimpleResponse(resp[1], Len(buf))

C7_Witness ==
    /\ Done /\ mut.kind = "none" /\ Len(resp) = 1 /\ Len(resp[1]) = 2
    /\ resp[1][1] # resp[1][2]
    /\ result.kind = "SimpleResponse"

\* C8: a well-formed buffer of N > 1 datagroups returns PipelinedResponse
\* with the N datagroups in wire order, each with the elements it declares
\* in wire order.
C8_GroupsArePipelinedResponse ==
    (Done /\ mut.kind = "none" /\ Len(resp) > 1)
        => /\ result.kind = "PipelinedResponse"
           /\ Len(result.data) = Len(resp)
           /\ \A j \in 1..Len(resp) : result.data[j] = resp[j]

C8_Witness ==
    /\ Done /\ mut.kind = "none" /\ Len(resp) = 2
    /\ Len(resp[1]) = 1 /\ Len(resp[2]) = 1
    /\ resp[1][1] # resp[2][1]
    /\ result.kind = "PipelinedResponse"

BadUnsignedPayloads == { NonNumericPayload, OverflowPayload }

\* C9: in an otherwise well-formed buffer, an UnsignedInt element whose
\* payload is no 64-bit unsigned decimal integer makes parse return
\* ParseError; a Str element with the same payload does not fail: parse
\* returns the success the framing determines, with the text as the value.
C9_BadUnsignedIsParseError ==
    (Done /\ mut.kind = "payload" /\ mut.bytes \in BadUnsignedPayloads)
        => /\ mut.tag = COLON => result.kind = "ParseError"
           /\ mut.tag = PLUS =>
                result = ExpectedSuccess(
                    WithElement(resp, mut.g, mut.e, Str(from_utf8_lossy(mut.bytes))), Len(buf))

C9_Witness ==
    /\ Done /\ mut.kind = "payload" /\ mut.tag = COLON
    /\ mut.bytes = OverflowPayload
    /\ Len(resp) = 2 /\ mut.g = 2
    /\ result.kind = "ParseError"

C11_ShortIsIncomplete ==
    /\ (Done /\ Len(buf) < 6) => result = Incomplete
    /\ result.kind # "Empty"

C11_Witness ==
    /\ Done /\ mut.kind = "raw" /\ Len(buf) = 5
    /\ At(buf, 0) = 120
    /\ result.kind = "Incomplete"

\* C12: a well-formed buffer that declares no datagroup and ends after the
\* metaframe returns PipelinedResponse with no datagroups and the length of
\* the buffer.
C12_NoGroupsIsEmptyBatch ==
    (Done /\ mut.kind = "none" /\ Len(resp) = 0)
        => result = PipelinedResponse(<< >>, Len(buf))

C12_Witness ==
    /\ Done /\ mut.kind = "none" /\ Len(resp) = 0
    /\ action_size = 0 /\ Len(items) = 0
    /\ result.kind = "PipelinedResponse"

\* C13: the shape of a success follows the declared count of datagroups
\* and the elements of the datagroup: ResponseItem only for one datagroup
\* of exactly one element, SimpleResponse only for one datagroup of more
\* than one element (never of none), PipelinedResponse only for a declared
\* count other than 1.  Stated for the well-formed buffers, where it fails
\* already.
C13_ShapeFollowsCounts ==
    (Done /\ Succeeded /\ mut.kind = "none")
        => /\ result.kind = "ResponseItem" =>
                action_size = 1 /\ Len(items) = 1 /\ Len(items[1]) = 1
           /\ result.kind = "SimpleResponse" =>
                action_size = 1 /\ Len(items) = 1 /\ Len(result.data) > 1
           /\ result.kind = "PipelinedResponse" => action_size # 1

\* C14: a datagroup is pushed only with exactly the number of elements its
\* array line declares, so every datagroup of a success holds that number.
\* current_array_size keeps the count declared by the datagroup pushed last.
C14_GroupHoldsDeclaredCount ==
    ((pc = "groups" \/ (Done /\ Succeeded)) /\ Len(items) > 0)
        => Len(items[Len(items)]) = current_array_size

\* The cuts and overwritten bytes that leave no line-feed after a line or a
\* payload.
FullLength == Len(Encode(WireResponse(resp)))

LineFeedMissing ==
    \/ mut.kind = "eol"
    \/ mut.kind = "truncate" /\ mut.at = FullLength - 1

\* C15: a buffer in which the byte after the metaline, after an array line
\* or after a payload is not a line-feed, or is missing, is never decoded
\* as a success.
C15_LineFeedsAreChecked ==
    (Done /\ LineFeedMissing) => ~Succeeded

\* The cuts that end the buffer where a datagroup would start: after the
\* metaframe or after a complete datagroup.
GroupBoundaries == RolePositions(EncodeMarked(WireResponse(resp)), { "frame" }) \ { 0 }

\* C16: a buffer that ends at a datagroup boundary with fewer datagroups
\* than declared returns Incomplete.
C16_MissingGroupsIsIncomplete ==
    (Done /\ mut.kind = "truncate" /\ mut.at \in GroupBoundaries)
        => result = Incomplete

C16_Witness ==
    /\ Done /\ mut.kind = "truncate" /\ mut.at \in GroupBoundaries
    /\ action_size = 2 /\ Len(items) = 1 /\ Len(items[1]) = 1
    /\ pos = Len(buf)
    /\ result.kind = "Incomplete"

\* C17: in a buffer of at least 6 bytes a wrong framing tag gives
\* InvalidResponse: at the first byte of the buffer, at the first byte of
\* the metaline, at the byte that starts a datagroup and at the first byte
\* of its array line.
C17_WrongFramingIsInvalid ==
    /\ (Done /\ mut.kind = "frame" /\ Len(buf) >= 6) => result = InvalidResponse
    /\ (Done /\ Len(buf) >= 6 /\ At(buf, 0) # HASH) => result = InvalidResponse

C17_Witness ==
    /\ Done /\ mut.kind = "frame" /\ Len(buf) >= 6
    /\ Len(items) = 1 /\ action_size = 2
    /\ At(buf, mut.at) = PLUS /\ At(buf, mut.at - 3) = HASH
    /\ result.kind = "InvalidResponse"

\* The steps of parse that call the line reader, and the cursor they pass.
LineReaderCalled ==
    \/ pc = "parse" /\ ~TooShort(buf) /\ At(buf, 0) = HASH
    \/ pc = "groups" /\ GroupLoop /\ At(buf, pos) = HASH

CursorAtCall == IF pc = "parse" THEN 1 ELSE pos + 1

\* The first position at or after p that holds no digit (the length of the
\* buffer when only digits follow), and the number the digits before it
\* denote.
FirstNonDigit(b, p) ==
    CHOOSE q \in p..Len(b) :
        /\ q = Len(b) \/ ~IsDigitByte(At(b, q))
        /\ \A k \in p..(q - 1) : IsDigitByte(At(b, k))

RECURSIVE PrefixValue(_, _, _)
PrefixValue(b, p, q) ==
    IF q <= p THEN [val |-> usize(0), overflow |-> FALSE]
    ELSE LET prev == PrefixValue(b, p, q - 1)
             m == wrapping_mul10_add(prev.val, At(b, q - 1) - ASCII_ZERO)
         IN  [val |-> m.val, overflow |-> prev.overflow \/ m.overflow]

\* parse aborts.
ReaderAborts == pc' = "done" /\ result' = Panic

\* The caller gives up with Incomplete and the cursor is left at c.
ReaderFailsAt(c) ==
    /\ pc' = "done" /\ result' = Incomplete
    /\ pos' = c

\* C18 as stated: a failing call of the line reader leaves the cursor where
\* it was at the call.
C18_FailureKeepsCursor ==
    [][(LineReaderCalled /\ result'.kind = "Incomplete") => pos' = CursorAtCall]_vars

\* C18, amended: a failing call leaves the cursor where the scan stopped,
\* at the non-digit byte of the prefix or one past the place of the
\* line-feed, never before the cursor of the call, and parse returns
\* Incomplete without using it again; a successful call leaves it past the
\* prefix, its line-feed and the L line bytes (the caller then skips one
\* byte more).  L is the number the machine word holds after the digits; a
\* call in which the arithmetic on it overflows may abort instead.
C18_Step ==
    LineReaderCalled =>
        LET p == CursorAtCall
            q == FirstNonDigit(buf, p)
            L == PrefixValue(buf, p, q)
            end == wrapping_add(L.val, q + 1)
            inside == IsSmall(end.val) /\ q + 1 <= ToInt(end.val) /\ ToInt(end.val) <= Len(buf)
        IN  \/ (L.overflow \/ end.overflow) /\ ReaderAborts
            \/ IF q < Len(buf) /\ At(buf, q) # LF THEN ReaderFailsAt(q)
               ELSE IF ~inside THEN ReaderFailsAt(q + 1)
               ELSE /\ pos' = ToInt(end.val) + 1
                    /\ result'.kind # "Incomplete"

C18_CursorAfterLineReader == [][C18_Step]_vars

C18_Witness ==
    /\ Done /\ mut.kind = "truncate" /\ Len(buf) >= 6
    /\ result.kind = "Incomplete"
    /\ pos = Len(buf) - 1
    /\ At(buf, pos - 3) = HASH /\ At(buf, pos - 1) = LF
    /\ Len(actiongroup) = 0

\* C19: parse returns an outcome for every buffer; a size line that
\* denotes 0, or has no digits, gives an empty line, and parse classifies
\* it without reading a byte of that line.
C19_EmptyLineIsClassified ==
    (Done /\ mut.kind \in { "zerolen", "raw" }) => result.kind # "Panic"

\* What is left of a run of parse: twice the distance of the cursor from
\* two past the buffer, one more inside the element loop, nothing once
\* parse has returned.
Remaining ==
    IF pc = "done" THEN 0
    ELSE 2 * (Len(buf) + 2 - pos) + (IF pc = "elements" THEN 1 ELSE 0)

\* C20: every step of the datagroup loop and of the element loop ends
\* parse, or moves the cursor forward, or is the push of a finished
\* datagroup; no more than action_size + 1 datagroups are collected and the
\* cursor stays within one past the buffer; every step lowers a natural
\* number, so parse ends after finitely many steps.
C20_Step ==
    /\ Remaining' < Remaining /\ Remaining' >= 0
    /\ \/ pc' = "done"
       \/ pos' > pos
       \/ /\ pc = "elements" /\ pc' = "groups"
          /\ Len(items') = Len(items) + 1 /\ pos' = pos
    /\ Len(items') <= action_size' + 1
    /\ pos' <= Len(buf) + 1

C20_Terminates == [][C20_Step]_vars

C20_Witness ==
    /\ Done /\ mut.kind = "none"
    /\ Len(items) = 2 /\ items[1] = << >> /\ Len(items[2]) = 1
    /\ pos = Len(buf)
    /\ Succeeded

\* C21: a length prefix whose value exceeds the bytes that remain after its
\* line-feed gives Incomplete, also when the value does not fit a usize:
\* the arithmetic never wraps into a small length that is accepted and
\* never aborts.
C21_HugeLengthIsIncomplete ==
    (Done /\ mut.kind = "hugelen") => result = Incomplete

\* The payloads of the `+<byte length>\n<payload>\n` elements a holding
\* buffer consists of, in order; for a buffer that is no sequence of such
\* elements the result ends with << -1 >>, which is no string of bytes.
RECURSIVE ElementsIn(_)
ElementsIn(d) ==
    IF Len(d) = 0 THEN << >>
    ELSE LET q == FirstNonDigit(d, 1)
             L == ToInt(PrefixValue(d, 1, q).val)
             wellformed == /\ At(d, 0) = PLUS
                           /\ q > 1 /\ q < Len(d) /\ At(d, q) = LF
                           /\ q + 1 + L < Len(d) /\ At(d, q + 1 + L) = LF
         IN  IF wellformed
             THEN << SubSeq(d, q + 2, q + 1 + L) >> \o ElementsIn(SubSeq(d, q + L + 3, Len(d)))
             ELSE << << -1 >> >>

\* The state of a Query agrees with the arguments added to it.
QueryHoldsArgs(q, as, st) ==
    /\ q.size_count = Len(as)
    /\ ElementsIn(q.data) = [i \in 1..Len(as) |-> to_string(as[i])]
    /\ st \in { "new", "written" } => q = Query_new

\* A step of a Query: a panic changes nothing, and a write_query_to that
\* succeeds has sent the metaframe, the count of the arguments held and
\* their elements, and nothing else.
QueryStep ==
    /\ status' = "panic" => query' = query /\ args' = args
    /\ status' = "io_error" => query' = query
    /\ status' = "written" =>
          /\ stream' = << STAR, ASCII_ZERO + 1, LF, UNDERSCORE >> \o DecStr(Len(args)) \o << LF >>
                          \o Concat([i \in 1..Len(args) |->
                                 << PLUS >> \o DecStr(Len(to_string(args[i]))) \o << LF >>
                                     \o to_string(args[i]) \o << LF >>])
          /\ query'.size_count = 0 /\ query'.data = << >>

\* C22: after any sequence of Query::new, Query::arg and write_query_to,
\* size_count is the number of `+<byte length>\n<arg>\n` elements in data,
\* which are the arguments added, in order; a write_query_to that succeeds
\* resets both, so that the next write sends only arguments added after
\* it; Query::arg with an empty argument panics and changes neither.
C22_CountMatchesData ==
    [][/\ QueryHoldsArgs(query, args, status)
       /\ QueryHoldsArgs(query', args', status')
       /\ QueryStep]_vars

\* A Query written in full with two arguments, used again for a third.
C22_Witness ==
    /\ status = "arg" /\ query.size_count = 1
    /\ args = << IntArg(10) >>
    /\ Len(stream) > 12
    /\ ElementsIn(SubSeq(stream, 7, Len(stream))) = << << PLUS, ASCII_ZERO + 1, LF >>, << ASCII_ZERO >> >>

====
